---- MODULE Spec2Model ----
(***************************************************************************)
(* Vector-benchmark corpus harness of arcadedb-embedded-python:            *)
(* shard catalog (resolve_dataset), bounded-memory streaming               *)
(* (stream_shards and its consumers) and query materialisation             *)
(* (materialize_queries), modelled from                                    *)
(* examples/benchmark-vector/benchmark_arcadedb_msmarco.py and             *)
(* examples/benchmark-vector/benchmark_faiss_msmarco.py.                   *)
(*                                                                         *)
(* Memory maps follow CPython reference counting: a numpy memmap stays     *)
(* mapped while any name refers to it or to a view sliced from it, and is  *)
(* unmapped when the last such reference goes away.                        *)
(***************************************************************************)
EXTENDS Integers, Sequences, FiniteSets, TLC

VARIABLES
    dim,          \* meta["dim"]
    shardSizes,   \* st_size of each shard file, in sorted(glob) order
    rs,           \* resolve_dataset: [pc, total]
    sources,      \* the catalog: sequence of [start, count]
    args,         \* arguments of the running call
    gen,          \* frame of the stream_shards generator
    cons,         \* frame of the consumer of the generator
    yielded,      \* the batches yielded so far: [gs, shard, lo, hi]
    mapLog,       \* the shards memory-mapped so far, in order
    mat,          \* frame and result of materialize_queries
    shardIdx,     \* the shard indices of the shard files in the dataset directory
    gt,           \* build_gt_sharded: its frame, the heaps and the ground-truth file
    run,          \* main: the benchmark run, its phase records and its database handle
    srch,         \* frame and result of search_index
    sidecars      \* the labels of the meta and ground-truth sidecars in the dataset directory

vars == <<dim, shardSizes, rs, sources, args, gen, cons, yielded, mapLog, mat,
          shardIdx, gt, run, srch, sidecars>>

-----------------------------------------------------------------------------
(* Bounds of the model *)

MaxShards == 3
MaxCount == 2
MaxDim == 2
MaxQueries == 2

\* max_rows: int | None = None
NoneRows == -1

Min(a, b) == IF a <= b THEN a ELSE b

Range(f) == {f[i] : i \in DOMAIN f}

-----------------------------------------------------------------------------
(* Shard files and the corpus they hold *)

\* Content of local row li (0-based) of shard file si: a value that names
\* the physical place it was read from.
FileRow(si, li) == si * (MaxCount + 2) + li

RECURSIVE SumCounts(_, _)
\* sum(s["count"] for s in sources[:n])
SumCounts(srcs, n) == IF n = 0 THEN 0 ELSE SumCounts(srcs, n - 1) + srcs[n].count

TotalRows(srcs) == SumCounts(srcs, Len(srcs))

RECURSIVE CorpusUpTo(_, _)
\* The corpus is the concatenation of the shard files in catalog order.
CorpusUpTo(srcs, n) ==
    IF n = 0 THEN << >>
    ELSE CorpusUpTo(srcs, n - 1) \o [j \in 1..srcs[n].count |-> FileRow(n, j - 1)]

Corpus(srcs) == CorpusUpTo(srcs, Len(srcs))

-----------------------------------------------------------------------------
(* resolve_dataset: the shard catalog *)

\* rows = (path.stat().st_size // 4) // dim
ShardRows(size, d) == (size \div 4) \div d

NextTotalStuck(total, rows) == total

\* total += rows
NextTotal(total, rows) == total + rows

RECURSIVE ResolveLoop(_, _, _, _)
\* total = 0
\* for path in shards:
\*     sources.append({"path": path, "start": total, "count": rows}); total += rows
ResolveLoop(sizes, d, n, acc) ==
    IF n > Len(sizes) THEN acc
    ELSE LET rows == ShardRows(sizes[n], d)
         IN ResolveLoop(sizes, d, n + 1,
                [sources |-> Append(acc.sources, [start |-> acc.total, count |-> rows]),
                 total |-> NextTotal(acc.total, rows)])

ResolveShards(sizes, d) == ResolveLoop(sizes, d, 1, [sources |-> << >>, total |-> 0])

-----------------------------------------------------------------------------
(* The names of the shard files and the order sorted() gives them *)

\* f"msmarco-passages-{count}.shard{shard_idx:04d}.f32": the width of the index
PadWidth == 4

\* The shard indices a dataset directory may hold.
ShardIndices == {2, 10, 2000, 10000}

RECURSIVE Digits(_)
\* The decimal digits of n, most significant first.
Digits(n) == IF n < 10 THEN <<n>> ELSE Append(Digits(n \div 10), n % 10)

\* {shard_idx:04d}: zeros on the left up to the width, never a cut.
ZeroPad(ds, w) == IF Len(ds) >= w THEN ds ELSE [i \in 1..(w - Len(ds)) |-> 0] \o ds

\* The characters of a shard file's name from the index on, as code points:
\* the digits, then the "." of ".f32". What comes before and after is the
\* same in every name of one label.
ShardName(idx) ==
    LET ds == ZeroPad(Digits(idx), PadWidth)
    IN [i \in 1..Len(ds) |-> 48 + ds[i]] \o <<46>>

\* a < b for str (and for Path): the first differing character decides, and
\* a proper prefix is smaller.
StrLess(a, b) ==
    \E i \in 1..(Len(b)) :
        /\ \A j \in 1..(i - 1) : j <= Len(a) /\ a[j] = b[j]
        /\ \/ i = Len(a) + 1
           \/ i <= Len(a) /\ a[i] < b[i]

\* The order of sorted(dataset_dir.glob(shard_pattern)): Path objects
\* compare as their strings do.
PathLess(i, j) == StrLess(ShardName(i), ShardName(j))

RECURSIVE SortedShards(_)
\* sorted(...) of the shard files, each named by its index.
SortedShards(S) ==
    IF S = {} THEN << >>
    ELSE LET first == CHOOSE i \in S : \A j \in S \ {i} : PathLess(i, j)
         IN <<first>> \o SortedShards(S \ {first})

-----------------------------------------------------------------------------
(* The sidecars of a dataset directory and the ones resolve_dataset picks *)

\* The labels of the sidecar files msmarco-passages-<label>.meta.json and
\* msmarco-passages-<label>.gt.jsonl, as code points: "2", "10", "1M", "9M".
Labels == {<<50>>, <<49, 48>>, <<49, 77>>, <<57, 77>>}

\* label.isdigit()
IsDigit(label) == \A i \in DOMAIN label : label[i] >= 48 /\ label[i] <= 57

RECURSIVE IntOf(_)
\* int(label)
IntOf(label) ==
    IF label = << >> THEN 0
    ELSE 10 * IntOf(SubSeq(label, 1, Len(label) - 1)) + (label[Len(label)] - 48)

\* _sort_key: (0, int(label)) for a label of digits, (1, label) otherwise.
SortKey(label) ==
    IF IsDigit(label) THEN [rank |-> 0, int |-> IntOf(label), str |-> << >>]
    ELSE [rank |-> 1, int |-> 0, str |-> label]

\* a < b for two keys of _sort_key.
KeyLess(a, b) ==
    \/ a.rank < b.rank
    \/ a.rank = b.rank /\ a.int < b.int
    \/ a.rank = b.rank /\ a.int = b.int /\ StrLess(a.str, b.str)

\* sorted(glob, key=_sort_key)[-1]: the label of the last file.
LastLabel(S) ==
    CHOOSE l \in S : \A m \in S \ {l} : KeyLess(SortKey(m), SortKey(l))

\* resolve_dataset: SystemExit without a meta or a ground-truth sidecar; it
\* never raises on a shard's size: it returns the catalog.
ResolveDataset ==
    /\ rs.pc = "start"
    /\ IF sidecars.meta = {} \/ sidecars.gt = {}
       THEN /\ sources' = sources
            /\ rs' = [rs EXCEPT !.pc = "exit"]
       ELSE LET r == ResolveShards(shardSizes, dim)
            IN /\ sources' = r.sources
               /\ rs' = [pc |-> "returned", total |-> r.total,
                         order |-> SortedShards(shardIdx),
                         label |-> LastLabel(sidecars.meta),
                         gt_label |-> LastLabel(sidecars.gt)]
    /\ UNCHANGED <<srch, shardIdx, sidecars, gt, run, dim, shardSizes, args, gen, cons, yielded, mapLog, mat>>

\* The catalogs resolve_dataset builds for shard files of whole rows.
Catalogs ==
    UNION {{ResolveShards([i \in 1..n |-> 4 * c[i]], 1).sources :
                c \in [1..n -> 0..MaxCount]} : n \in 1..MaxShards}

-----------------------------------------------------------------------------
(* Idle values of the frames a specification does not run *)

NoArgs == [call |-> "none"]
NoGen == [pc |-> "none", mm |-> 0]
NoCons == [pc |-> "none", batch |-> 0, vec |-> 0]
NoMat == [pc |-> "none", mm |-> 0]
NoResolve == [pc |-> "none", total |-> 0, order |-> << >>]
NoGt == [pc |-> "none"]
NoRun == [pc |-> "none"]
NoSearch == [pc |-> "none"]
NoSidecars == [meta |-> {}, gt |-> {}]

\* Byte sizes a shard file can have: whole rows, plus nothing, a stray byte
\* or a stray float.
FileSizes(d) == {4 * d * k + r : k \in 0..MaxCount, r \in {0, 1, 4}}

ResolveInit ==
    /\ dim \in 1..MaxDim
    /\ shardSizes \in UNION {[1..n -> FileSizes(dim)] : n \in 1..MaxShards}
    /\ shardIdx \in {S \in SUBSET ShardIndices : Cardinality(S) = Len(shardSizes)}
    /\ sidecars = [meta |-> {<<50>>}, gt |-> {<<50>>}]
    /\ gt = NoGt
    /\ run = NoRun
    /\ srch = NoSearch
    /\ rs = [pc |-> "start", total |-> 0, order |-> << >>]
    /\ sources = << >>
    /\ args = NoArgs
    /\ gen = NoGen
    /\ cons = NoCons
    /\ yielded = << >>
    /\ mapLog = << >>
    /\ mat = NoMat

ResolveNext == ResolveDataset

ResolveSpec == ResolveInit /\ [][ResolveNext]_vars

\* A dataset directory with sidecars of several labels and one shard of one row.
SidecarInit ==
    /\ dim = 1
    /\ shardSizes = <<4>>
    /\ shardIdx = {2}
    /\ sidecars \in [meta : SUBSET Labels, gt : SUBSET Labels]
    /\ gt = NoGt
    /\ run = NoRun
    /\ srch = NoSearch
    /\ rs = [pc |-> "start", total |-> 0, order |-> << >>]
    /\ sources = << >>
    /\ args = NoArgs
    /\ gen = NoGen
    /\ cons = NoCons
    /\ yielded = << >>
    /\ mapLog = << >>
    /\ mat = NoMat

SidecarSpec == SidecarInit /\ [][ResolveNext]_vars

-----------------------------------------------------------------------------
(* stream_shards: the generator *)

GenCreated ==
    [pc |-> "created", si |-> 0, to_skip |-> 0, remaining |-> 0, mm |-> 0,
     start |-> 0, end |-> 0, shard_limit |-> 0, take_total |-> 0]

\* The frame of a generator that returned, or that was finalised when its
\* last reference went away: its locals are gone.
GenOver(pc) == [GenCreated EXCEPT !.pc = pc]

\* remaining = max_rows if max_rows is not None else total_rows - start_offset
InitialRemaining(max_rows, total_rows, start_offset) ==
    IF max_rows # NoneRows THEN max_rows ELSE total_rows - start_offset

TakeTotalUnbounded(shard_rows, shard_skip, remaining) == shard_rows - shard_skip

\* take_total = min(shard_rows - shard_skip, remaining)
TakeTotal(shard_rows, shard_skip, remaining) == Min(shard_rows - shard_skip, remaining)

BatchEndAtShardLimit(start, batch_size, shard_limit) == shard_limit

\* end = min(start + batch_size, shard_limit)
BatchEnd(start, batch_size, shard_limit) == Min(start + batch_size, shard_limit)

GlobalStartWithinShard(shard_start, start) == start

\* yield s["start"] + start, ...
GlobalStart(shard_start, start) == shard_start + start

InitialSkipNone(start_offset) == 0

\* to_skip = start_offset (the FAISS harness's streamer has no start_offset)
InitialSkip(start_offset) == start_offset

\* mm[start:end] on a map of shape (shard_rows, dim): numpy clips the slice.
View(si, start, end, shard_rows) ==
    [shard |-> si, lo |-> Min(start, shard_rows), hi |-> Min(end, shard_rows)]

\* First next(): the code before the for loop.
GenStart ==
    /\ cons.pc = "next"
    /\ gen.pc = "created"
    /\ LET total_rows == TotalRows(sources)
       IN IF args.streamer = "arcadedb" /\ args.start_offset >= total_rows
          THEN gen' = GenOver("done")
          ELSE gen' = [GenCreated EXCEPT
                          !.pc = "for",
                          !.si = 1,
                          !.to_skip = InitialSkip(args.start_offset),
                          !.remaining = InitialRemaining(args.max_rows, total_rows,
                                                         args.start_offset)]
    /\ UNCHANGED <<srch, shardIdx, sidecars, gt, run, dim, shardSizes, rs, sources, args, cons, yielded, mapLog, mat>>

\* One step of `for s in sources:` up to the memmap of the shard, or to the
\* end of the generator.
GenFor ==
    /\ cons.pc = "next"
    /\ gen.pc = "for"
    /\ IF gen.si > Len(sources) \/ gen.remaining <= 0
       THEN /\ gen' = GenOver("done")
            /\ UNCHANGED mapLog
       ELSE LET shard_rows == sources[gen.si].count
            IN IF gen.to_skip >= shard_rows /\ args.streamer = "arcadedb"
               THEN /\ gen' = [gen EXCEPT !.to_skip = gen.to_skip - shard_rows,
                                          !.si = gen.si + 1]
                    /\ UNCHANGED mapLog
               ELSE LET shard_skip == gen.to_skip
                        take_total == TakeTotal(shard_rows, shard_skip, gen.remaining)
                    IN IF take_total <= 0
                       THEN /\ gen' = [gen EXCEPT !.to_skip = 0, !.si = gen.si + 1]
                            /\ UNCHANGED mapLog
                       ELSE /\ gen' = [gen EXCEPT
                                           !.pc = "while",
                                           !.to_skip = 0,
                                           !.take_total = take_total,
                                           !.mm = gen.si,
                                           !.start = shard_skip,
                                           !.shard_limit = shard_skip + take_total]
                            /\ mapLog' = Append(mapLog, gen.si)
    /\ UNCHANGED <<srch, shardIdx, sidecars, gt, run, dim, shardSizes, rs, sources, args, cons, yielded, mat>>

\* `while start < shard_limit:` either yields the next batch to the consumer,
\* which binds it to `batch`, or leaves the loop: del mm; remaining -= take_total.
GenWhile ==
    /\ cons.pc = "next"
    /\ gen.pc = "while"
    /\ IF gen.start < gen.shard_limit
       THEN LET end == BatchEnd(gen.start, args.batch_size, gen.shard_limit)
                view == View(gen.si, gen.start, end, sources[gen.si].count)
            IN /\ gen' = [gen EXCEPT !.pc = "yielded", !.end = end]
               /\ yielded' = Append(yielded,
                      [gs |-> GlobalStart(sources[gen.si].start, gen.start),
                       shard |-> view.shard, lo |-> view.lo, hi |-> view.hi])
               /\ cons' = [cons EXCEPT !.pc = "body", !.batch = gen.mm]
       ELSE /\ gen' = [gen EXCEPT !.pc = "for",
                                  !.mm = 0,
                                  !.remaining = gen.remaining - gen.take_total,
                                  !.si = gen.si + 1]
            /\ UNCHANGED <<yielded, cons>>
    /\ UNCHANGED <<srch, shardIdx, sidecars, gt, run, dim, shardSizes, rs, sources, args, mapLog, mat>>

\* next() on the suspended generator: start = end, back to the while test.
GenResume ==
    /\ cons.pc = "next"
    /\ gen.pc = "yielded"
    /\ gen' = [gen EXCEPT !.pc = "while", !.start = gen.end]
    /\ UNCHANGED <<srch, shardIdx, sidecars, gt, run, dim, shardSizes, rs, sources, args, cons, yielded, mapLog, mat>>

LastBatch == yielded[Len(yielded)]

BatchRows(b) == b.hi - b.lo

-----------------------------------------------------------------------------
(* ingest_vectors_streaming: the ArcadeDB harness's consumer *)

\* The body of the for loop: one transaction saving every row of the batch.
\* `vec` is left bound to the last row of the batch.
IngestBatch ==
    /\ args.call = "ingest"
    /\ cons.pc = "body"
    /\ cons' = [cons EXCEPT !.pc = "next",
                            !.vec = cons.batch,
                            !.count = cons.count + BatchRows(LastBatch)]
    /\ UNCHANGED <<srch, shardIdx, sidecars, gt, run, dim, shardSizes, rs, sources, args, gen, yielded, mapLog, mat>>

\* The transaction or an insert raises. Nothing catches it: the for loop's
\* iterator is dropped, which finalises the generator, and the exception's
\* traceback keeps the frame with `batch` and `vec`.
IngestRaise ==
    /\ args.call = "ingest"
    /\ cons.pc = "body"
    /\ \E rowsDone \in {0, 1} :
         cons' = [cons EXCEPT !.pc = "raised",
                              !.vec = IF rowsDone = 0 THEN cons.vec ELSE cons.batch]
    /\ gen' = GenOver("closed")
    /\ UNCHANGED <<srch, shardIdx, sidecars, gt, run, dim, shardSizes, rs, sources, args, yielded, mapLog, mat>>

\* StopIteration ends the loop: return ingested; the frame and its locals go.
IngestReturn ==
    /\ args.call = "ingest"
    /\ cons.pc = "next"
    /\ gen.pc = "done"
    /\ cons' = [cons EXCEPT !.pc = "returned", !.batch = 0, !.vec = 0]
    /\ UNCHANGED <<srch, shardIdx, sidecars, gt, run, dim, shardSizes, rs, sources, args, gen, yielded, mapLog, mat>>

-----------------------------------------------------------------------------
(* sample_training_data: the FAISS harness's consumer, which stops early *)

\* sample_size = min(sample_size, count)
SampleSize == Min(args.sample_size, args.max_rows)

\* The body of the for loop; a break drops the iterator, which finalises
\* the suspended generator.
SampleBatch ==
    /\ args.call = "sample"
    /\ cons.pc = "body"
    /\ LET need == SampleSize - cons.count
           take == Min(need, BatchRows(LastBatch))
       IN IF need <= 0
          THEN /\ cons' = [cons EXCEPT !.pc = "after"]
               /\ gen' = GenOver("closed")
          ELSE IF cons.count + take >= SampleSize
               THEN /\ cons' = [cons EXCEPT !.pc = "after", !.count = cons.count + take]
                    /\ gen' = GenOver("closed")
               ELSE /\ cons' = [cons EXCEPT !.pc = "next", !.count = cons.count + take]
                    /\ UNCHANGED gen
    /\ UNCHANGED <<srch, shardIdx, sidecars, gt, run, dim, shardSizes, rs, sources, args, yielded, mapLog, mat>>

\* StopIteration ends the loop.
SampleExhausted ==
    /\ args.call = "sample"
    /\ cons.pc = "next"
    /\ gen.pc = "done"
    /\ cons' = [cons EXCEPT !.pc = "after"]
    /\ UNCHANGED <<srch, shardIdx, sidecars, gt, run, dim, shardSizes, rs, sources, args, gen, yielded, mapLog, mat>>

\* if collected == 0: raise RuntimeError(...); return np.vstack(chunks)
SampleFinish ==
    /\ args.call = "sample"
    /\ cons.pc = "after"
    /\ IF cons.count = 0
       THEN cons' = [cons EXCEPT !.pc = "raised"]
       ELSE cons' = [cons EXCEPT !.pc = "returned", !.batch = 0, !.vec = 0]
    /\ UNCHANGED <<srch, shardIdx, sidecars, gt, run, dim, shardSizes, rs, sources, args, gen, yielded, mapLog, mat>>

-----------------------------------------------------------------------------
(* The streaming specification *)

\* The shards whose memory map is open: those some live name refers to.
OpenMaps == {gen.mm, cons.batch, cons.vec, mat.mm} \ {0}

IngestArgs ==
    {[call |-> "ingest", streamer |-> "arcadedb", batch_size |-> b,
      start_offset |-> o, max_rows |-> m, sample_size |-> 0] :
        b \in 1..(TotalRows(sources) + 1),
        o \in 0..(TotalRows(sources) + 1),
        m \in {NoneRows} \cup 0..(TotalRows(sources) + 1)}

SampleArgs ==
    {[call |-> "sample", streamer |-> "faiss", batch_size |-> b,
      start_offset |-> 0, max_rows |-> m, sample_size |-> z] :
        b \in 1..(MaxCount + 1),
        m \in 0..(TotalRows(sources) + 1),
        z \in 0..(MaxCount + 1)}

StreamInit ==
    /\ shardIdx = {}
    /\ sidecars = NoSidecars
    /\ gt = NoGt
    /\ run = NoRun
    /\ srch = NoSearch
    /\ dim = 1
    /\ shardSizes = << >>
    /\ rs = NoResolve
    /\ sources \in Catalogs
    /\ args \in IngestArgs \cup SampleArgs
    /\ gen = GenCreated
    /\ cons = [pc |-> "next", batch |-> 0, vec |-> 0, count |-> 0]
    /\ yielded = << >>
    /\ mapLog = << >>
    /\ mat = NoMat

StreamNext ==
    \/ GenStart
    \/ GenFor
    \/ GenWhile
    \/ GenResume
    \/ IngestBatch
    \/ IngestRaise
    \/ IngestReturn
    \/ SampleBatch
    \/ SampleExhausted
    \/ SampleFinish

StreamSpec == StreamInit /\ [][StreamNext]_vars

\* The interpreter runs the single thread until the call exits.
StreamLiveSpec == StreamSpec /\ WF_vars(StreamNext)

-----------------------------------------------------------------------------
(* What a stream yielded, row by row *)

\* The rows of one yielded batch: the global id the consumer gives each row
\* (enumerate(batch, start=base_id)) and the content the view holds.
RowsOfBatch(b) ==
    [k \in 1..BatchRows(b) |-> [id |-> b.gs + k - 1, val |-> FileRow(b.shard, b.lo + k - 1)]]

RECURSIVE RowsUpTo(_, _)
RowsUpTo(batches, n) ==
    IF n = 0 THEN << >> ELSE RowsUpTo(batches, n - 1) \o RowsOfBatch(batches[n])

YieldedRows == RowsUpTo(yielded, Len(yielded))

\* Global row g of the corpus, 0-based, with its content.
CorpusRows(srcs) == [g \in 1..Len(Corpus(srcs)) |-> [id |-> g - 1, val |-> Corpus(srcs)[g]]]

Streaming == args.call = "ingest"

Exhausted == gen.pc = "done"

Exited == cons.pc \in {"returned", "raised"}

-----------------------------------------------------------------------------
\* C1: with start_offset = 0 and max_rows = None, the batches of a stream
\* consumed to its end, concatenated, are the global rows 0..total_rows-1,
\* each once and in order, with the corpus's content, whatever batch_size is.
StreamingCompleteness ==
    (Streaming /\ args.start_offset = 0 /\ args.max_rows = NoneRows /\ Exhausted)
        => YieldedRows = CorpusRows(sources)

StreamingCompletenessWitness ==
    /\ Streaming /\ args.start_offset = 0 /\ args.max_rows = NoneRows /\ Exhausted
    /\ args.batch_size = 2
    /\ Len(yielded) = 3
    /\ Len(YieldedRows) = 5
    /\ BatchRows(yielded[2]) = 1
    /\ Cardinality({yielded[i].shard : i \in DOMAIN yielded}) = 3

\* C2: every yielded batch has between 1 and batch_size rows, all of them
\* rows of one shard, and successive batches have strictly increasing
\* global_start.
BatchesWithinOneShard ==
    Streaming =>
        \A i \in DOMAIN yielded :
            LET b == yielded[i]
                s == sources[b.shard]
            IN /\ 1 <= BatchRows(b)
               /\ BatchRows(b) <= args.batch_size
               /\ s.start <= b.gs
               /\ b.gs + BatchRows(b) <= s.start + s.count
               /\ i > 1 => yielded[i - 1].gs < b.gs

\* A batch cut short at a shard boundary, the stream going on in the next shard.
BatchesWithinOneShardWitness ==
    /\ Streaming
    /\ \E i \in DOMAIN yielded :
         /\ i < Len(yielded)
         /\ BatchRows(yielded[i]) < args.batch_size
         /\ yielded[i + 1].shard # yielded[i].shard
         /\ yielded[i + 1].gs = yielded[i].gs + BatchRows(yielded[i])

RECURSIVE RowsFromShard(_, _, _)
\* The rows the first n batches took from shard si.
RowsFromShard(batches, n, si) ==
    IF n = 0 THEN 0
    ELSE RowsFromShard(batches, n - 1, si)
         + (IF batches[n].shard = si THEN BatchRows(batches[n]) ELSE 0)

\* min(max_rows, total_rows - start_offset), 0 when start_offset >= total_rows
ExpectedRows ==
    IF args.start_offset >= TotalRows(sources) THEN 0
    ELSE Min(args.max_rows, TotalRows(sources) - args.start_offset)

StreamWithinBound ==
    (Streaming /\ args.max_rows # NoneRows) =>
        /\ Len(YieldedRows) <= args.max_rows
        /\ gen.pc \in {"while", "yielded"} =>
               /\ gen.shard_limit - gen.start <= gen.remaining
               /\ RowsFromShard(yielded, Len(yielded), gen.si) <= gen.remaining
        /\ Exhausted => Len(YieldedRows) = ExpectedRows

\* C3: for start_offset >= 0, max_rows >= 0 and batch_size >= 1 the stream
\* ends, it yields min(max_rows, total_rows - start_offset) rows in all (0 when
\* start_offset >= total_rows), and it takes from no shard more rows than the
\* bound still remaining.
StreamEndsWithinBound == []StreamWithinBound /\ <>Exited

\* A bound that cuts the stream inside its second shard.
StreamEndsWithinBoundWitness ==
    /\ Streaming /\ Exhausted
    /\ args.max_rows # NoneRows
    /\ args.start_offset > 0
    /\ args.max_rows < TotalRows(sources) - args.start_offset
    /\ Len(YieldedRows) = args.max_rows
    /\ Len(mapLog) = 2
    /\ BatchRows(LastBatch) < args.batch_size

\* C4: for start_offset in [0, total_rows) no shard that lies wholly before
\* start_offset is mapped, the first batch starts at start_offset, the rows
\* yielded are the rows start_offset, start_offset+1, ... of the corpus, and
\* every shard after the one holding the offset is read from its row 0.
StartOffsetSkipsShards ==
    (Streaming /\ args.start_offset < TotalRows(sources)) =>
        /\ \A k \in Range(mapLog) :
               sources[k].start + sources[k].count > args.start_offset
        /\ yielded # << >> => yielded[1].gs = args.start_offset
        /\ YieldedRows = SubSeq(CorpusRows(sources), args.start_offset + 1,
                                args.start_offset + Len(YieldedRows))
        /\ \A i \in DOMAIN yielded :
               (i > 1 /\ yielded[i].shard # yielded[i - 1].shard) => yielded[i].lo = 0
        /\ (Exhausted /\ args.max_rows = NoneRows) =>
               Len(YieldedRows) = TotalRows(sources) - args.start_offset

\* The offset falls inside the second shard: the first is skipped unmapped,
\* the second is read from the offset and the third from its row 0.
StartOffsetSkipsShardsWitness ==
    /\ Streaming /\ Exhausted
    /\ mapLog = <<2, 3>>
    /\ sources[1].count > 0
    /\ yielded[1].lo > 0
    /\ yielded[1].gs = args.start_offset
    /\ LastBatch.shard = 3

\* C5: while the stream is consumed batch by batch, at most one shard memory
\* map is open at every instant.
AtMostOneMapOpen == Streaming => Cardinality(OpenMaps) <= 1

\* C6: once the streaming call has exited, by returning or by raising, no
\* shard memory map is open.
NoMapOpenAfterExit == Exited => OpenMaps = {}

-----------------------------------------------------------------------------
(* materialize_queries *)

LocalIndexGlobal(qid, start) == qid

\* (qi, qid - start)
LocalIndex(qid, start) == qid - start

\* if start <= qid < end
InShard(qid, s) == s.start <= qid /\ qid < s.start + s.count

RECURSIVE AssignLoop(_, _, _)
\* for qi, qid in enumerate(query_ids):
\*     for s in sources:
\*         if start <= qid < end:
\*             shard_map.setdefault(s["path"], []).append((qi, qid - start)); break
AssignLoop(query_ids, qi, shard_map) ==
    IF qi > Len(query_ids) THEN shard_map
    ELSE LET qid == query_ids[qi]
             hits == {k \in DOMAIN sources : InShard(qid, sources[k])}
         IN IF hits = {} THEN AssignLoop(query_ids, qi + 1, shard_map)
            ELSE LET k == CHOOSE h \in hits : \A g \in hits : h <= g
                 IN AssignLoop(query_ids, qi + 1,
                        [shard_map EXCEPT ![k] =
                            Append(@, [qi |-> qi, li |-> LocalIndex(qid, sources[k].start)])])

RECURSIVE CopyRows(_, _, _, _)
\* for qi, li in assigns: queries[qi] = mm[li]
CopyRows(queries, assigns, n, si) ==
    IF n > Len(assigns) THEN queries
    ELSE CopyRows([queries EXCEPT ![assigns[n].qi] = FileRow(si, assigns[n].li)],
                  assigns, n + 1, si)

\* The first loop: every query id is looked up in the catalog.
MatAssign ==
    /\ mat.pc = "assign"
    /\ mat' = [mat EXCEPT
                  !.pc = "shards",
                  !.si = 1,
                  !.shard_map = AssignLoop(args.query_ids, 1,
                                           [k \in DOMAIN sources |-> << >>])]
    /\ UNCHANGED <<srch, shardIdx, sidecars, gt, run, dim, shardSizes, rs, sources, args, gen, cons, yielded, mapLog>>

\* One step of the second loop: a shard with assignments is mapped, its rows
\* are copied and the map is dropped.
MatShard ==
    /\ mat.pc = "shards"
    /\ mat.si <= Len(sources)
    /\ LET assigns == mat.shard_map[mat.si]
       IN IF assigns = << >>
          THEN /\ mat' = [mat EXCEPT !.si = mat.si + 1]
               /\ UNCHANGED mapLog
          ELSE /\ mat' = [mat EXCEPT
                             !.si = mat.si + 1,
                             !.queries = CopyRows(mat.queries, assigns, 1, mat.si),
                             !.copied = mat.copied \cup {assigns[n].qi : n \in DOMAIN assigns}]
               /\ mapLog' = Append(mapLog, mat.si)
    /\ UNCHANGED <<srch, shardIdx, sidecars, gt, run, dim, shardSizes, rs, sources, args, gen, cons, yielded>>

\* return queries
MatReturn ==
    /\ mat.pc = "shards"
    /\ mat.si > Len(sources)
    /\ mat' = [mat EXCEPT !.pc = "returned"]
    /\ UNCHANGED <<srch, shardIdx, sidecars, gt, run, dim, shardSizes, rs, sources, args, gen, cons, yielded, mapLog>>

\* What np.empty leaves in a row nothing was copied to: whatever the memory
\* held, which may look like a corpus row.
StaleRows == {-1, FileRow(1, 0)}

MatCatalogs == {c \in Catalogs : Len(c) < MaxShards}

MatInit ==
    /\ shardIdx = {}
    /\ sidecars = NoSidecars
    /\ gt = NoGt
    /\ run = NoRun
    /\ srch = NoSearch
    /\ dim = 1
    /\ shardSizes = << >>
    /\ rs = NoResolve
    /\ sources \in MatCatalogs
    /\ args \in {[call |-> "materialize", query_ids |-> q] :
                    q \in UNION {[1..n -> (0 - 1)..TotalRows(sources)] : n \in 0..MaxQueries}}
    /\ gen = NoGen
    /\ cons = NoCons
    /\ yielded = << >>
    /\ mapLog = << >>
    /\ mat \in {[pc |-> "assign", si |-> 0, mm |-> 0, copied |-> {},
                 shard_map |-> << >>, queries |-> e] :
                    e \in [1..Len(args.query_ids) -> StaleRows]}

MatNext == MatAssign \/ MatShard \/ MatReturn

MatSpec == MatInit /\ [][MatNext]_vars

QueriesInRange == \A i \in DOMAIN args.query_ids :
    0 <= args.query_ids[i] /\ args.query_ids[i] < TotalRows(sources)

\* C7: for in-range query ids, in any order and with duplicates, the matrix
\* returned has len(query_ids) rows and row i is corpus row query_ids[i].
MaterializerCorrect ==
    (mat.pc = "returned" /\ QueriesInRange) =>
        /\ Len(mat.queries) = Len(args.query_ids)
        /\ mat.copied = DOMAIN args.query_ids
        /\ \A i \in DOMAIN args.query_ids :
               mat.queries[i] = Corpus(sources)[args.query_ids[i] + 1]

\* Ids out of order, the first in the second shard and the second in the first.
MaterializerCorrectWitness ==
    /\ mat.pc = "returned"
    /\ Len(args.query_ids) = 2
    /\ QueriesInRange
    /\ Len(sources) = 2
    /\ InShard(args.query_ids[1], sources[2])
    /\ InShard(args.query_ids[2], sources[1])
    /\ args.query_ids[1] > sources[2].start
    /\ mapLog = <<1, 2>>

\* C8: an id < 0 or >= total_rows makes materialize_queries fail before any
\* shard is mapped: it maps nothing and returns nothing for such ids, and a
\* matrix it returns holds only rows copied from the corpus.
QueryOutOfRangeRejected ==
    /\ ~QueriesInRange => (mapLog = << >> /\ mat.pc # "returned")
    /\ mat.pc = "returned" => mat.copied = DOMAIN args.query_ids

-----------------------------------------------------------------------------
\* C9: in every catalog resolve_dataset returns the first shard starts at 0,
\* each shard starts where the one before it ends, and the counts add up to
\* total_rows.
ShardCoverage ==
    rs.pc = "returned" =>
        /\ Len(sources) = Len(shardSizes)
        /\ sources[1].start = 0
        /\ \A i \in DOMAIN sources :
               i > 1 => sources[i].start = sources[i - 1].start + sources[i - 1].count
        /\ SumCounts(sources, Len(sources)) = rs.total

\* Three shards, an empty one in the middle.
ShardCoverageWitness ==
    /\ rs.pc = "returned"
    /\ Len(sources) = 3
    /\ sources[1].count = 2
    /\ sources[2].count = 0
    /\ sources[3].count = 1
    /\ sources[3].start = 2
    /\ rs.total = 3

\* C10: resolve_dataset does not return a catalog when the byte size of a
\* shard file is not a multiple of dim*4: it fails with CorruptShard.
CorruptShardRejected ==
    rs.pc = "returned" => \A i \in DOMAIN shardSizes : shardSizes[i] % (dim * 4) = 0

-----------------------------------------------------------------------------
(* Ground truth: build_gt_sharded of the converter, streaming_topk of mock_search *)

MaxDocs == 3
MaxK == 2
MaxChunk == 2

\* The rows the converter writes are embs / norm: unit vectors. Here those
\* with whole-number components, so that every dot product is exact.
Vectors == {<<1, 0>>, <<0, 1>>, <<-1, 0>>}

\* One entry of block @ queries.T: the dot product of a row and a query.
Dot(a, b) == a[1] * b[1] + a[2] * b[2]

\* The shard catalogs of a corpus of n rows: one shard, or two that follow
\* one another (one of them may be empty).
GtCatalogs(n) ==
    {<<[start |-> 0, count |-> n]>>} \cup
    {<<[start |-> 0, count |-> c], [start |-> c, count |-> n - c]>> : c \in 0..n}

\* Row li of the memory map of shard s.
ShardRow(corpus, s, li) == corpus[s.start + li + 1]

\* q_indices = rng.choice(total_count, size=q_count, replace=False)
QIndices(total_count, q_count) ==
    {q \in [1..Min(q_count, total_count) -> 0..(total_count - 1)] :
        \A i, j \in DOMAIN q : i # j => q[i] # q[j]}

\* queries[qi] = mm[gidx - s["start"]] for the shard s that holds gidx.
QueryVector(corpus, shards, gidx) ==
    LET si == CHOOSE i \in DOMAIN shards :
                  /\ InShard(gidx, shards[i])
                  /\ \A j \in 1..(i - 1) : ~InShard(gidx, shards[j])
    IN ShardRow(corpus, shards[si], gidx - shards[si].start)

\* (score, doc_id) < (score, doc_id) for Python tuples.
TupleLess(a, b) == a[1] < b[1] \/ (a[1] = b[1] /\ a[2] < b[2])

RECURSIVE SiftDown(_, _, _, _)
\* heapq._siftdown: move newitem from pos towards the root (position 1 here)
\* while it is less than its parent.
SiftDown(heap, startpos, pos, newitem) ==
    IF pos > startpos /\ TupleLess(newitem, heap[pos \div 2])
    THEN SiftDown([heap EXCEPT ![pos] = heap[pos \div 2]], startpos, pos \div 2, newitem)
    ELSE [heap EXCEPT ![pos] = newitem]

RECURSIVE SiftUp(_, _, _, _)
\* heapq._siftup: bubble the smaller child up until a leaf, then sift newitem down.
SiftUp(heap, startpos, pos, newitem) ==
    LET childpos == 2 * pos
        rightpos == childpos + 1
        c == IF rightpos <= Len(heap) /\ ~TupleLess(heap[childpos], heap[rightpos])
             THEN rightpos ELSE childpos
    IN IF childpos <= Len(heap)
       THEN SiftUp([heap EXCEPT ![pos] = heap[c]], startpos, c, newitem)
       ELSE SiftDown(heap, startpos, pos, newitem)

\* heapq.heappush(heap, item)
HeapPush(heap, item) == SiftDown(Append(heap, item), 1, Len(heap) + 1, item)

HeapPushPopNever(heap, item) == heap

\* heapq.heappushpop(heap, item): the heap afterwards.
HeapPushPop(heap, item) ==
    IF heap # << >> /\ TupleLess(heap[1], item)
    THEN SiftUp([heap EXCEPT ![1] = item], 1, 1, item)
    ELSE heap

OfferAlwaysPush(heap, topk, item) == HeapPush(heap, item)

\* if len(heap) < topk: heappush else: heappushpop
Offer(heap, topk, item) ==
    IF Len(heap) < topk THEN HeapPush(heap, item) ELSE HeapPushPop(heap, item)

RECURSIVE OfferBlock(_, _, _, _, _, _, _)
\* for i, score in enumerate(col): the rows off+i .. end-1 of shard s offered
\* to the heap of query vector q.
OfferBlock(heap, topk, corpus, s, q, li, end) ==
    IF li >= end THEN heap
    ELSE OfferBlock(Offer(heap, topk, <<Dot(ShardRow(corpus, s, li), q), s.start + li>>),
                    topk, corpus, s, q, li + 1, end)

\* The set of the entries of a sequence.
Items(h) == {h[i] : i \in DOMAIN h}

RECURSIVE SortReverse(_)
\* heap.sort(reverse=True): the tuples from the greatest down.
SortReverse(S) ==
    IF S = {} THEN << >>
    ELSE LET top == CHOOSE a \in S : \A b \in S \ {a} : TupleLess(b, a)
         IN <<top>> \o SortReverse(S \ {top})

\* The sequence h without its entry at position p.
Without(h, p) == SubSeq(h, 1, p - 1) \o SubSeq(h, p + 1, Len(h))

RECURSIVE SortedByScore(_)
\* sorted(heap, key=lambda x: x[0], reverse=True): stable, so equal scores
\* keep the order they have in the heap's list.
SortedByScore(h) ==
    IF h = << >> THEN << >>
    ELSE LET p == CHOOSE i \in DOMAIN h :
                      /\ \A j \in DOMAIN h : h[j][1] <= h[i][1]
                      /\ \A j \in 1..(i - 1) : h[j][1] < h[i][1]
         IN <<h[p]>> \o SortedByScore(Without(h, p))

\* [{"doc_id": int(d), "score": float(s)} for s, d in heap]
Hits(h) == [i \in DOMAIN h |-> [doc_id |-> h[i][2], score |-> h[i][1]]]

GtRunning == gt.pc \in {"start", "scan", "write"}

\* The call is made: q_indices are drawn and the query vectors are copied.
GtStart ==
    /\ gt.pc = "start"
    /\ gt' = [gt EXCEPT !.pc = "scan",
                        !.queries = [qi \in DOMAIN gt.q_indices |->
                                        QueryVector(gt.corpus, gt.shards, gt.q_indices[qi])],
                        !.heaps = [qi \in DOMAIN gt.q_indices |-> << >>]]
    /\ UNCHANGED <<srch, shardIdx, sidecars, run, dim, shardSizes, rs, sources, args, gen, cons,
                   yielded, mapLog, mat>>

\* One pass of "for off in range(0, s["count"], CHUNK)": the block is offered
\* to the heap of every query.
GtChunk ==
    /\ gt.pc = "scan"
    /\ gt.si <= Len(gt.shards)
    /\ gt.off < gt.shards[gt.si].count
    /\ LET s == gt.shards[gt.si]
           end == Min(gt.off + gt.chunk, s.count)
       IN gt' = [gt EXCEPT !.heaps = [qi \in DOMAIN gt.heaps |->
                                         OfferBlock(gt.heaps[qi], gt.topk, gt.corpus, s,
                                                    gt.queries[qi], gt.off, end)],
                           !.prev = gt.heaps,
                           !.last = [first |-> s.start + gt.off, rows |-> end - gt.off],
                           !.off = gt.off + gt.chunk]
    /\ UNCHANGED <<srch, shardIdx, sidecars, run, dim, shardSizes, rs, sources, args, gen, cons,
                   yielded, mapLog, mat>>

\* The range of a shard is exhausted: its map is closed, the next shard follows.
GtNextShard ==
    /\ gt.pc = "scan"
    /\ gt.si <= Len(gt.shards)
    /\ gt.off >= gt.shards[gt.si].count
    /\ gt' = [gt EXCEPT !.si = gt.si + 1, !.off = 0]
    /\ UNCHANGED <<srch, shardIdx, sidecars, run, dim, shardSizes, rs, sources, args, gen, cons,
                   yielded, mapLog, mat>>

\* with open(gt_path, "w") as f: the file at the final path exists, empty.
GtOpen ==
    /\ gt.pc = "scan"
    /\ gt.si > Len(gt.shards)
    /\ gt' = [gt EXCEPT !.pc = "write", !.exists = TRUE, !.lines = << >>]
    /\ UNCHANGED <<srch, shardIdx, sidecars, run, dim, shardSizes, rs, sources, args, gen, cons,
                   yielded, mapLog, mat>>

\* One pass of "for qi, heap in enumerate(heaps)": the line of one query.
GtWriteLine ==
    /\ gt.pc = "write"
    /\ Len(gt.lines) < Len(gt.heaps)
    /\ LET qi == Len(gt.lines) + 1
       IN gt' = [gt EXCEPT !.lines = Append(gt.lines,
                               [query_id |-> gt.q_indices[qi],
                                topk |-> Hits(SortReverse(Items(gt.heaps[qi])))])]
    /\ UNCHANGED <<srch, shardIdx, sidecars, run, dim, shardSizes, rs, sources, args, gen, cons,
                   yielded, mapLog, mat>>

\* The with block ends: the file is closed and build_gt_sharded returns.
GtClose ==
    /\ gt.pc = "write"
    /\ Len(gt.lines) = Len(gt.heaps)
    /\ gt' = [gt EXCEPT !.pc = "done"]
    /\ UNCHANGED <<srch, shardIdx, sidecars, run, dim, shardSizes, rs, sources, args, gen, cons,
                   yielded, mapLog, mat>>

\* The process dies (killed, out of memory, power loss): what is on disk stays.
GtCrash ==
    /\ GtRunning
    /\ gt' = [gt EXCEPT !.pc = "crashed"]
    /\ UNCHANGED <<srch, shardIdx, sidecars, run, dim, shardSizes, rs, sources, args, gen, cons,
                   yielded, mapLog, mat>>

GtInit ==
    /\ dim = 2
    /\ shardSizes = << >>
    /\ shardIdx = {}
    /\ sidecars = NoSidecars
    /\ rs = NoResolve
    /\ sources = << >>
    /\ args = NoArgs
    /\ gen = NoGen
    /\ cons = NoCons
    /\ yielded = << >>
    /\ mapLog = << >>
    /\ mat = NoMat
    /\ run = NoRun
    /\ srch = NoSearch
    /\ \E n \in 1..MaxDocs :
       \E corpus \in [1..n -> Vectors] :
       \E shards \in GtCatalogs(n) :
       \E q_count \in 1..MaxQueries :
       \E q_indices \in QIndices(n, q_count) :
       \E topk \in 1..MaxK :
       \E chunk \in 1..MaxChunk :
           gt = [pc |-> "start", corpus |-> corpus, shards |-> shards,
                 q_indices |-> q_indices, topk |-> topk, chunk |-> chunk,
                 queries |-> << >>, heaps |-> << >>, si |-> 1, off |-> 0,
                 exists |-> FALSE, lines |-> << >>,
                 prev |-> << >>, last |-> [first |-> 0, rows |-> 0]]

GtNext ==
    \/ GtStart
    \/ GtChunk
    \/ GtNextShard
    \/ GtOpen
    \/ GtWriteLine
    \/ GtClose
    \/ GtCrash

GtSpec == GtInit /\ [][GtNext]_vars

\* The call has returned.
GtDone == gt.pc = "done"

\* The top-k list build_gt_sharded has written for query qi.
Emitted(qi) == gt.lines[qi].topk

\* The hits streaming_topk returns for query qi: its scan is the loop of
\* build_gt_sharded, with the chunk size as a parameter, and leaves the same heaps.
TopkResults(qi) == Hits(SortedByScore(gt.heaps[qi]))

\* The score of every corpus row for query qi, by doc_id.
Scores(qi) == [d \in 0..(Len(gt.corpus) - 1) |-> Dot(gt.corpus[d + 1], gt.queries[qi])]

-----------------------------------------------------------------------------
(* search_index: the recall of a search phase *)

\* rec.get("id") of a record without an id
NoId == -1

\* gt_full.get(qid) of a query without ground truth
NoGtList == <<NoId>>

\* recall_mean = None, of no recalls
NoMean == [num |-> 0, den |-> 0]

\* No statistics yet.
NoStats == [queries |-> 0, recall_mean |-> NoMean, recall_count |-> 0]

\* The lists find_nearest may return, each record by its id: none, fewer than
\* k, records without an id, one id twice, more than k.
ResultLists ==
    {<< >>, <<0>>, <<NoId, 1>>, <<1, 0>>, <<0, 0, 2>>, <<2, NoId, 1, 0>>, <<3, 2, 1, 0>>}

\* The ground-truth lists of a query: none, empty, shorter and longer than k.
GtLists == {NoGtList, << >>, <<0>>, <<1, 0>>, <<0, 1, 2, 3>>}

\* The query ids of a run of q queries.
QidLists(q) == {[i \in 1..q |-> 2 * i], [i \in 1..q |-> q - i]}

RECURSIVE ResultIds(_)
\* result_ids: the ids of the records, those without an id left out.
ResultIds(results) ==
    IF results = << >> THEN << >>
    ELSE (IF Head(results) # NoId THEN <<Head(results)>> ELSE << >>)
         \o ResultIds(Tail(results))

TakeAll(list, k) == list

\* list[:k]
Take(list, k) == SubSeq(list, 1, Min(k, Len(list)))

RECURSIVE SumHits(_)
\* The sum of the numerators of the recalls.
SumHits(recalls) ==
    IF recalls = << >> THEN 0 ELSE Head(recalls).hits + SumHits(Tail(recalls))

\* float(np.mean(recalls)) if recalls else None: the mean of fractions of
\* denominator k, as a fraction.
RecallMean(recalls, k) ==
    IF recalls = << >> THEN NoMean
    ELSE [num |-> SumHits(recalls), den |-> k * Len(recalls)]

\* What find_nearest may return for the query at position qi: any list from
\* the index built in this run; from the index of the reopened store the list
\* it returned before the close, or nothing when the index did not persist.
Answers(s, qi) ==
    IF s.session = 1 THEN ResultLists
    ELSE IF s.persisted THEN {s.answers[qi]} ELSE {<< >>}

SearchStart ==
    /\ srch.pc = "start"
    /\ srch' = [srch EXCEPT !.pc = "loop"]
    /\ UNCHANGED <<gt, shardIdx, sidecars, run, dim, shardSizes, rs, sources, args, gen, cons,
                   yielded, mapLog, mat>>

\* One pass of "for qi, qid in enumerate(qids)" in which find_nearest returns.
SearchQuery ==
    /\ srch.pc = "loop"
    /\ srch.qi < Len(srch.qids)
    /\ \E results \in Answers(srch, srch.qi + 1) :
          LET qid == srch.qids[srch.qi + 1]
              result_ids == ResultIds(results)
              gt_list == srch.gt_full[qid]
              retrieved == Items(Take(result_ids, srch.k))
              gt_set == Items(Take(gt_list, srch.k))
          IN srch' = [srch EXCEPT
                 !.qi = srch.qi + 1,
                 !.results = results,
                 !.answers = IF srch.session = 1 THEN Append(srch.answers, results)
                             ELSE srch.answers,
                 !.latencies = srch.latencies + 1,
                 !.recalls = IF gt_list = NoGtList \/ gt_list = << >>
                             THEN srch.recalls
                             ELSE Append(srch.recalls,
                                         [hits |-> Cardinality(retrieved \cap gt_set),
                                          k |-> srch.k])]
    /\ UNCHANGED <<gt, shardIdx, sidecars, run, dim, shardSizes, rs, sources, args, gen, cons,
                   yielded, mapLog, mat>>

\* find_nearest raises: nothing in the loop catches it, it leaves search_index.
SearchRaise ==
    /\ srch.pc = "loop"
    /\ srch.qi < Len(srch.qids)
    /\ srch' = [srch EXCEPT !.pc = "raised"]
    /\ UNCHANGED <<gt, shardIdx, sidecars, run, dim, shardSizes, rs, sources, args, gen, cons,
                   yielded, mapLog, mat>>

\* The loop is over: the statistics are returned.
SearchReturn ==
    /\ srch.pc = "loop"
    /\ srch.qi = Len(srch.qids)
    /\ srch' = [srch EXCEPT !.pc = "returned",
                            !.stats = [queries |-> Len(srch.qids),
                                       recall_mean |-> RecallMean(srch.recalls, srch.k),
                                       recall_count |-> Len(srch.recalls)]]
    /\ UNCHANGED <<gt, shardIdx, sidecars, run, dim, shardSizes, rs, sources, args, gen, cons,
                   yielded, mapLog, mat>>

SearchInit ==
    /\ dim = 1
    /\ shardSizes = << >>
    /\ shardIdx = {}
    /\ sidecars = NoSidecars
    /\ rs = NoResolve
    /\ sources = << >>
    /\ args = NoArgs
    /\ gen = NoGen
    /\ cons = NoCons
    /\ yielded = << >>
    /\ mapLog = << >>
    /\ mat = NoMat
    /\ gt = NoGt
    /\ run = NoRun
    /\ \E q \in 1..MaxQueries :
       \E qids \in QidLists(q) :
       \E gt_full \in [Range(qids) -> GtLists] :
       \E k \in 1..MaxK :
           srch = [pc |-> "start", qids |-> qids, gt_full |-> gt_full, k |-> k,
                   qi |-> 0, results |-> << >>, latencies |-> 0, recalls |-> << >>,
                   stats |-> NoStats, session |-> 1, answers |-> << >>,
                   persisted |-> TRUE, first |-> NoStats]

SearchNext ==
    \/ SearchStart
    \/ SearchQuery
    \/ SearchRaise
    \/ SearchReturn

SearchSpec == SearchInit /\ [][SearchNext]_vars

SearchArgsFirstQuery(s) == [qids |-> SubSeq(s.qids, 1, 1), gt_full |-> s.gt_full, k |-> s.k]

\* The arguments main gives search_index, in the search phase and again in
\* search_after_reopen: queries and qids, gt_full, k=eval_k.
SearchArgs(s) == [qids |-> s.qids, gt_full |-> s.gt_full, k |-> s.k]

\* main after the search phase: the store is closed and reopened, the index is
\* taken from the reopened store, and search_index is called again.
SearchAfterReopen ==
    /\ srch.pc = "returned"
    /\ srch.session = 1
    /\ \E persisted \in BOOLEAN :
           srch' = [srch EXCEPT !.pc = "loop",
                                !.session = 2,
                                !.persisted = persisted,
                                !.first = srch.stats,
                                !.qids = SearchArgs(srch).qids,
                                !.gt_full = SearchArgs(srch).gt_full,
                                !.k = SearchArgs(srch).k,
                                !.qi = 0,
                                !.latencies = 0,
                                !.recalls = << >>,
                                !.stats = NoStats]
    /\ UNCHANGED <<gt, shardIdx, sidecars, run, dim, shardSizes, rs, sources, args, gen, cons,
                   yielded, mapLog, mat>>

ReopenNext ==
    \/ SearchStart
    \/ SearchQuery
    \/ SearchRaise
    \/ SearchReturn
    \/ SearchAfterReopen

\* The two search phases of one run.
ReopenSpec == SearchInit /\ [][ReopenNext]_vars

-----------------------------------------------------------------------------
(* main: the phases of a benchmark run *)

MaxRss == 2

\* float("nan"): equal to nothing, itself included.
NaN == -1

\* a == b for two floats.
FloatEq(a, b) == a # NaN /\ b # NaN /\ a = b

\* The statements of main from the first timed section on, in program order.
Program ==
    <<"load_queries", "prepare_db_path", "create_db", "load_corpus", "ingest_initial",
      "ingest_remaining", "ingest", "create_index", "build_graph_now", "warmup",
      "search", "prune_vecgraph_files", "close_db", "open_db", "get_vector_index",
      "warmup_after_reopen", "search_after_reopen", "finally">>

\* The position of a statement in the program.
Pos(name) == CHOOSE i \in DOMAIN Program : Program[i] = name

AfterNext(name) == Program[Min(Pos(name) + 2, Len(Program))]

\* The statement after a statement.
After(name) == Program[Pos(name) + 1]

\* The statements inside "try:".
InTry(name) == Pos(name) > Pos("create_db") /\ name # "finally"

\* The values rss_mb() may give after some work, when it gave r before: the
\* resident memory stays or moves to a level not seen before.
RssAfter(r) == r..Min(r + 1, MaxRss)

\* The rows ingest_vectors_streaming inserts: what stream_shards yields.
IngestedRows(total_rows, start_offset, count) ==
    Min(count, IF total_rows > start_offset THEN total_rows - start_offset ELSE 0)

\* record(name, result, dur, r0, r1) after timed_section(name, fn): the run
\* with the record of the phase, at the next statement.
Timed(name, result, end_rss) ==
    [run EXCEPT !.pc = After(name),
                !.rss = end_rss,
                !.phases = Append(run.phases,
                                  [name |-> name, rss_before_mb |-> run.rss,
                                   rss_after_mb |-> end_rss, session |-> run.opens]
                                  @@ result)]

\* Work outside a timed section: no record, the resident memory may move.
Untimed(name, end_rss) == [run EXCEPT !.pc = After(name), !.rss = end_rss]

OtherFrames ==
    UNCHANGED <<srch, shardIdx, sidecars, gt, dim, shardSizes, rs, sources, args, gen, cons,
                yielded, mapLog, mat>>

LoadQueries ==
    /\ run.pc = "load_queries"
    /\ \E r \in RssAfter(run.rss) : run' = Timed("load_queries", << >>, r)
    /\ OtherFrames

\* if db_path.exists() and not args.keep_db: shutil.rmtree(db_path)
DbDirPrepared(db_dir, keep_db) ==
    IF db_dir = "present" /\ ~keep_db THEN "absent" ELSE db_dir

\* db_root.mkdir, shutil.rmtree(db_path)
PrepareDbPath ==
    /\ run.pc = "prepare_db_path"
    /\ \E r \in RssAfter(run.rss) :
           run' = [Untimed("prepare_db_path", r) EXCEPT
                       !.db_dir = DbDirPrepared(run.db_dir, run.keep_db)]
    /\ OtherFrames

CreateDb ==
    /\ run.pc = "create_db"
    /\ \E r \in RssAfter(run.rss) :
           run' = [Timed("create_db", << >>, r) EXCEPT
                       !.db = "handle", !.store = "open", !.opens = run.opens + 1,
                       !.db_dir = "present"]
    /\ OtherFrames

\* timed_section("load_corpus", lambda: None)
LoadCorpus ==
    /\ run.pc = "load_corpus"
    /\ \E r \in RssAfter(run.rss) : run' = Timed("load_corpus", << >>, r)
    /\ OtherFrames

IngestInitial ==
    /\ run.pc = "ingest_initial"
    /\ LET first_batch_rows == Min(run.batch_size, run.count)
           ingested_first == IngestedRows(run.total_rows, 0, first_batch_rows)
       IN \E r \in RssAfter(run.rss) :
              run' = [Timed("ingest_initial", [rows |-> ingested_first, offset |-> 0], r)
                          EXCEPT !.ingested_first = ingested_first]
    /\ OtherFrames

\* if remaining_rows > 0: the second ingest
IngestRemaining ==
    /\ run.pc = "ingest_remaining"
    /\ run.count - run.ingested_first > 0
    /\ LET remaining_rows == run.count - run.ingested_first
           ingested_rest == IngestedRows(run.total_rows, run.ingested_first, remaining_rows)
       IN \E r \in RssAfter(run.rss) :
              run' = Timed("ingest_remaining",
                           [rows |-> ingested_rest, offset |-> run.ingested_first], r)
    /\ OtherFrames

\* phases["ingest"] = {...}: the record of both ingests, without an rss sample.
IngestAggregate ==
    /\ \/ run.pc = "ingest"
       \/ run.pc = "ingest_remaining" /\ run.count - run.ingested_first <= 0
    /\ run' = [run EXCEPT
                   !.pc = After("ingest"),
                   !.phases = Append(run.phases,
                                  [name |-> "ingest", rss_before_mb |-> NaN,
                                   rss_after_mb |-> NaN, session |-> run.opens,
                                   rows |-> run.count,
                                   batches |-> IF run.count - run.ingested_first > 0
                                               THEN 2 ELSE 1])]
    /\ OtherFrames

CreateIndex ==
    /\ run.pc = "create_index"
    /\ \E r \in RssAfter(run.rss) : run' = Timed("create_index", << >>, r)
    /\ OtherFrames

BuildGraphNow ==
    /\ run.pc = "build_graph_now"
    /\ \E r \in RssAfter(run.rss) : run' = Timed("build_graph_now", << >>, r)
    /\ OtherFrames

\* warmup, and warmup_after_reopen
Warmup ==
    /\ run.pc \in {"warmup", "warmup_after_reopen"}
    /\ \E r \in RssAfter(run.rss) : run' = Timed(run.pc, << >>, r)
    /\ OtherFrames

\* search, and search_after_reopen: search_index returns its statistics.
Search ==
    /\ run.pc \in {"search", "search_after_reopen"}
    /\ \E r \in RssAfter(run.rss) : run' = Timed(run.pc, << >>, r)
    /\ OtherFrames

PruneVecgraphFiles ==
    /\ run.pc = "prune_vecgraph_files"
    /\ \E r \in RssAfter(run.rss) : run' = Untimed("prune_vecgraph_files", r)
    /\ OtherFrames

\* timed_section("close_db", lambda: db.close()); record(...); db = None
CloseDb ==
    /\ run.pc = "close_db"
    /\ \E r \in RssAfter(run.rss) :
           run' = [Timed("close_db", << >>, r) EXCEPT !.db = "None", !.store = "closed"]
    /\ OtherFrames

OpenDb ==
    /\ run.pc = "open_db"
    /\ \E r \in RssAfter(run.rss) :
           run' = [Timed("open_db", << >>, r) EXCEPT
                       !.db = "handle", !.store = "open", !.opens = run.opens + 1]
    /\ OtherFrames

\* index = db.schema.get_vector_index("VectorData", "vector")
GetVectorIndex ==
    /\ run.pc = "get_vector_index"
    /\ \E r \in RssAfter(run.rss) : run' = Untimed("get_vector_index", r)
    /\ OtherFrames

\* Where an exception raised by a statement is handled next.
Handler(name) == IF InTry(name) THEN "finally" ELSE "failed"

\* A statement other than a search raises: no record, the exception is in flight.
PhaseRaises ==
    /\ run.pc \in Range(Program) \ {"finally", "search", "search_after_reopen"}
    /\ run' = [run EXCEPT !.pc = Handler(run.pc), !.error = run.pc, !.exc = run.pc]
    /\ OtherFrames

\* find_nearest raises for one query of a search phase: the exception leaves
\* search_index and timed_section.
SearchRaises ==
    /\ run.pc \in {"search", "search_after_reopen"}
    /\ \E qi \in 1..MaxQueries :
           run' = [run EXCEPT !.pc = Handler(run.pc), !.error = run.pc,
                              !.exc = run.pc, !.failed_qi = qi]
    /\ OtherFrames

Reraise(exc, close_error) == close_error

\* An exception of the final close when exc is in flight: "except Exception: pass".
Swallow(exc, close_error) == exc

\* Where main goes after the finally block.
AfterFinally(exc) == IF exc = "none" THEN "write_results" ELSE "failed"

\* finally: db is not None and db.close() returns.
FinalClose ==
    /\ run.pc = "finally"
    /\ run.db # "None"
    /\ \E r \in RssAfter(run.rss) :
           run' = [run EXCEPT
                       !.phases = Append(run.phases,
                                      [name |-> "close_db_final", rss_before_mb |-> run.rss,
                                       rss_after_mb |-> r, session |-> run.opens]),
                       !.rss = r,
                       !.pc = AfterFinally(run.exc),
                       !.store = "closed",
                       !.final_close = "closed"]
    /\ OtherFrames

\* finally: db is not None and db.close() raises: the error is dropped.
FinalCloseRaises ==
    /\ run.pc = "finally"
    /\ run.db # "None"
    /\ run' = [run EXCEPT !.exc = Swallow(run.exc, "close_db_final"),
                          !.pc = AfterFinally(Swallow(run.exc, "close_db_final")),
                          !.final_close = "swallowed"]
    /\ OtherFrames

\* finally: db is None, nothing to close.
FinalCloseSkipped ==
    /\ run.pc = "finally"
    /\ run.db = "None"
    /\ run' = [run EXCEPT !.pc = AfterFinally(run.exc)]
    /\ OtherFrames

\* results.json and results.md are written; main returns.
WriteResults ==
    /\ run.pc = "write_results"
    /\ run' = [run EXCEPT !.pc = "done", !.results_written = TRUE,
                          !.db_dir = "present"]
    /\ OtherFrames

MainInit ==
    /\ dim = 1
    /\ shardSizes = << >>
    /\ shardIdx = {}
    /\ sidecars = NoSidecars
    /\ rs = NoResolve
    /\ sources = << >>
    /\ args = NoArgs
    /\ gen = NoGen
    /\ cons = NoCons
    /\ yielded = << >>
    /\ mapLog = << >>
    /\ mat = NoMat
    /\ gt = NoGt
    /\ srch = NoSearch
    /\ \E total_rows \in 1..MaxCount :
       \E count \in 1..(MaxCount + 1) :
       \E batch_size \in 1..MaxCount :
       \E keep_db \in BOOLEAN :
       \E db_dir \in {"absent", "present"} :
           run = [pc |-> "load_queries", keep_db |-> keep_db, db_dir |-> db_dir, total_rows |-> total_rows, count |-> count,
                  batch_size |-> batch_size, rss |-> 0, phases |-> << >>,
                  db |-> "None", store |-> "absent", opens |-> 0,
                  error |-> "none", exc |-> "none", failed_qi |-> 0,
                  final_close |-> "not_attempted", ingested_first |-> 0,
                  results_written |-> FALSE]

MainNext ==
    \/ LoadQueries
    \/ PrepareDbPath
    \/ CreateDb
    \/ LoadCorpus
    \/ IngestInitial
    \/ IngestRemaining
    \/ IngestAggregate
    \/ CreateIndex
    \/ BuildGraphNow
    \/ Warmup
    \/ Search
    \/ PruneVecgraphFiles
    \/ CloseDb
    \/ OpenDb
    \/ GetVectorIndex
    \/ PhaseRaises
    \/ SearchRaises
    \/ FinalClose
    \/ FinalCloseRaises
    \/ FinalCloseSkipped
    \/ WriteResults

MainSpec == MainInit /\ [][MainNext]_vars

-----------------------------------------------------------------------------
(* main: the queries retained from the ground-truth file, and their search *)

\* load_queries(gt_path, limit=1000), and the [:1000] of the two filters
QueryLimit == 1000

\* The top-k lists of a line of the ground-truth file: empty or not.
FileTopks == {<< >>, <<1, 0>>}

\* The ground-truth files of up to MaxQueries lines, each a query id and a top-k.
GtFiles ==
    UNION {[1..n -> [query_id : 0..MaxCount, topk : FileTopks]] : n \in 1..MaxQueries}

\* load_queries: the query ids of the first lines of the file, up to the limit.
FileQids(file, limit) == [i \in 1..Min(limit, Len(file)) |-> file[i].query_id]

\* load_ground_truth: gt[qid] = the doc ids of the line; a later line of the
\* same query id replaces an earlier one.
LoadGroundTruth(file) ==
    [q \in {file[i].query_id : i \in DOMAIN file} |->
        file[CHOOSE i \in DOMAIN file :
                 /\ file[i].query_id = q
                 /\ \A j \in DOMAIN file : file[j].query_id = q => j <= i].topk]

InCorpusOrNext(qid, total_rows) == qid <= total_rows

\* qid < total_rows
InCorpus(qid, total_rows) == qid < total_rows

RECURSIVE QidsInCorpus(_, _)
\* [qid for qid in qids if qid < total_rows]
QidsInCorpus(qids, total_rows) ==
    IF qids = << >> THEN << >>
    ELSE (IF InCorpus(Head(qids), total_rows) THEN <<Head(qids)>> ELSE << >>)
         \o QidsInCorpus(Tail(qids), total_rows)

RECURSIVE QidsWithGt(_, _)
\* [qid for qid in qids if qid in gt_full]
QidsWithGt(qids, gt_full) ==
    IF qids = << >> THEN << >>
    ELSE (IF Head(qids) \in DOMAIN gt_full THEN <<Head(qids)>> ELSE << >>)
         \o QidsWithGt(Tail(qids), gt_full)

\* The qids of main after both filters.
RetainedQids(file, total_rows) ==
    Take(QidsWithGt(Take(QidsInCorpus(FileQids(file, QueryLimit), total_rows), QueryLimit),
                    LoadGroundTruth(file)),
         QueryLimit)

\* main up to the call of search_index: the queries are retained, or the run
\* ends with "No valid query IDs with ground truth found".
QueryInit ==
    /\ dim = 1
    /\ shardSizes = << >>
    /\ shardIdx = {}
    /\ sidecars = NoSidecars
    /\ rs = NoResolve
    /\ sources = << >>
    /\ args = NoArgs
    /\ gen = NoGen
    /\ cons = NoCons
    /\ yielded = << >>
    /\ mapLog = << >>
    /\ mat = NoMat
    /\ gt = NoGt
    /\ run = NoRun
    /\ \E file \in GtFiles :
       \E total_rows \in 1..MaxCount :
           LET qids == RetainedQids(file, total_rows)
           IN srch = [pc |-> IF qids = << >> THEN "no_queries" ELSE "start",
                      qids |-> qids, gt_full |-> LoadGroundTruth(file), k |-> MaxK,
                      qi |-> 0, results |-> << >>, latencies |-> 0, recalls |-> << >>,
                      stats |-> NoStats, session |-> 1, answers |-> << >>,
                      persisted |-> TRUE, first |-> NoStats,
                      file |-> file, total_rows |-> total_rows]

\* The search phase of a run, on the queries main has retained.
QuerySpec == QueryInit /\ [][SearchNext]_vars

-----------------------------------------------------------------------------
\* C11: resolve_dataset puts the shard files in the order of their numeric
\* shard index: the shard with the smaller index comes first in the catalog
\* and gets the smaller global start.
ShardsInNumericOrder ==
    rs.pc = "returned" =>
        \A i, j \in DOMAIN rs.order :
            rs.order[i] < rs.order[j] => (i < j /\ sources[i].start <= sources[j].start)

-----------------------------------------------------------------------------
\* Hit a ranks before hit b in a brute-force ranking of the whole corpus: the
\* higher score first and, of two equal scores, the lower doc_id first.
RanksBefore(a, b) == a.score > b.score \/ (a.score = b.score /\ a.doc_id < b.doc_id)

\* The hit of every corpus row for query qi.
AllHits(qi) == {[doc_id |-> d, score |-> Scores(qi)[d]] : d \in DOMAIN Scores(qi)}

\* The brute-force top-k of query qi: the hits that fewer than topk others precede.
BruteForceTopk(qi) ==
    {a \in AllHits(qi) :
        Cardinality({b \in AllHits(qi) : RanksBefore(b, a)}) < gt.topk}

\* C12: when the streaming pass has returned, the top-k of every query holds
\* the doc ids and scores of the brute-force top-k over the whole corpus,
\* whatever the shard partition and the chunk size.
GtMatchesBruteForce ==
    GtDone =>
        \A qi \in DOMAIN gt.heaps :
            /\ Items(Emitted(qi)) = BruteForceTopk(qi)
            /\ Items(TopkResults(qi)) = BruteForceTopk(qi)

\* C13: in every emitted top-k list, of two hits with equal scores the one
\* with the lower doc_id comes first, and a document left out of the list
\* never has the score of a listed document with a higher doc_id.
TieBreakLowerDocFirst ==
    GtDone =>
        \A qi \in DOMAIN gt.heaps : \A e \in {Emitted(qi), TopkResults(qi)} :
               /\ \A i, j \in DOMAIN e :
                      (i < j /\ e[i].score = e[j].score) => e[i].doc_id < e[j].doc_id
               /\ \A a \in AllHits(qi) \ Items(e) : \A i \in DOMAIN e :
                      a.score = e[i].score => e[i].doc_id < a.doc_id

\* The scores of the emitted list are those of the brute-force top-k, in
\* descending order (the doc ids aside).
GtScoresExact ==
    GtDone =>
        \A qi \in DOMAIN gt.heaps : \A e \in {Emitted(qi), TopkResults(qi)} :
               /\ Len(e) = Cardinality(BruteForceTopk(qi))
               /\ \A i \in DOMAIN e :
                      /\ e[i].score = Scores(qi)[e[i].doc_id]
                      /\ i > 1 => e[i - 1].score >= e[i].score
                      /\ \A a \in AllHits(qi) \ Items(e) : a.score <= e[i].score
               /\ \A i, j \in DOMAIN e : i # j => e[i].doc_id # e[j].doc_id

-----------------------------------------------------------------------------
\* The corpus rows whose vector is that of row r.
SameAs(r) == {d \in 0..(Len(gt.corpus) - 1) : gt.corpus[d + 1] = gt.corpus[r + 1]}

\* The greatest score a corpus row has for query qi.
MaxScore(qi) == CHOOSE m \in Range(Scores(qi)) : \A x \in Range(Scores(qi)) : x <= m

-----------------------------------------------------------------------------
\* C15: in every state, a crash included, the file at the ground-truth path
\* is absent or holds the entry of every query.
GtFileAbsentOrComplete ==
    gt.pc # "none" => (~gt.exists \/ Len(gt.lines) = Len(gt.q_indices))

-----------------------------------------------------------------------------
\* The query at position i of qids has ground truth.
HasGt(i) ==
    /\ srch.gt_full[srch.qids[i]] # NoGtList
    /\ srch.gt_full[srch.qids[i]] # << >>

\* The positions up to n of the queries that have ground truth.
WithGt(n) == {i \in 1..n : HasGt(i)}

\* C18: every query with ground truth gets one recall, in the order of the
\* queries, and the recall of the query just searched is the number of ids
\* that are among the first k ids retrieved and among the first k of the
\* ground truth, over k; it lies between 0 and 1; recall_count is the number
\* of queries with ground truth and recall_mean is the sum of their recalls
\* over that number.
RecallAtK ==
    /\ srch.pc \in {"loop", "returned", "raised"} =>
           /\ Len(srch.recalls) = Cardinality(WithGt(srch.qi))
           /\ \A i \in DOMAIN srch.recalls :
                  /\ srch.recalls[i].k = srch.k
                  /\ 0 <= srch.recalls[i].hits
                  /\ srch.recalls[i].hits <= srch.k
           /\ (srch.qi > 0 /\ HasGt(srch.qi)) =>
                  LET ids == ResultIds(srch.results)
                      truth == srch.gt_full[srch.qids[srch.qi]]
                  IN srch.recalls[Len(srch.recalls)].hits =
                         Cardinality({d \in Items(ids) :
                             /\ \E i \in 1..Min(srch.k, Len(ids)) : ids[i] = d
                             /\ \E j \in 1..Min(srch.k, Len(truth)) : truth[j] = d})
    /\ srch.pc = "returned" =>
           /\ srch.qi = Len(srch.qids)
           /\ srch.stats.recall_count = Cardinality(WithGt(Len(srch.qids)))
           /\ srch.stats.recall_count > 0 =>
                  /\ srch.stats.recall_mean.num = SumHits(srch.recalls)
                  /\ srch.stats.recall_mean.den = srch.k * srch.stats.recall_count
           /\ srch.stats.recall_count = 0 => srch.stats.recall_mean = NoMean

\* A search of two queries has returned: one has ground truth and the last
\* one has none; more than k records came back, and the mean is neither 0 nor 1.
RecallAtKWitness ==
    /\ srch.pc = "returned"
    /\ Len(srch.qids) > 1
    /\ srch.stats.recall_count = 1
    /\ Len(ResultIds(srch.results)) > srch.k
    /\ srch.stats.recall_mean.num > 0
    /\ srch.stats.recall_mean.num < srch.stats.recall_mean.den

-----------------------------------------------------------------------------
\* The states of the orchestrator, by the names of their phase records.
StateOrder ==
    <<"load_queries", "create_db", "ingest", "create_index", "build_graph_now",
      "warmup", "search", "close_db", "open_db", "warmup_after_reopen",
      "search_after_reopen", "close_db_final">>

\* The names of the phase records, in the order of their recording.
PhaseNames == [i \in DOMAIN run.phases |-> run.phases[i].name]

IsState(name) == name \in Range(StateOrder)

\* The records of the orchestrator's states: the placeholder load_corpus and
\* the two parts of the ingest, ingest_initial and ingest_remaining, aside.
StateRecords == SelectSeq(PhaseNames, IsState)

IsPrefix(a, b) == Len(a) <= Len(b) /\ SubSeq(b, 1, Len(a)) = a

\* No statement has raised, the final close included.
NothingRaised == run.error = "none" /\ run.final_close # "swallowed"

\* C16: while no phase raises, the records of the states are recorded in the
\* fixed order, each once; the run that ends has the record of every state;
\* the search after the reopen runs on the store's second opening, after the
\* records of close_db and open_db.
PhaseOrdering ==
    (run.pc # "none" /\ NothingRaised) =>
        /\ IsPrefix(StateRecords, StateOrder)
        /\ \A i, j \in DOMAIN PhaseNames : i # j => PhaseNames[i] # PhaseNames[j]
        /\ run.pc \in {"write_results", "done"} => StateRecords = StateOrder
        /\ \A i \in DOMAIN run.phases :
               /\ run.phases[i].name = "search" =>
                      run.phases[i].session = 1
               /\ run.phases[i].name = "search_after_reopen" =>
                      /\ run.phases[i].session = 2
                      /\ \E c, o \in 1..(i - 1) :
                             /\ c < o
                             /\ run.phases[c].name = "close_db"
                             /\ run.phases[o].name = "open_db"
                             /\ \E x \in 1..(c - 1) : run.phases[x].name = "search"
        /\ run.pc \in {"search", "warmup", "create_index", "build_graph_now",
                       "warmup_after_reopen", "search_after_reopen"} =>
               run.store = "open"

\* A run with both ingests has ended without any error.
PhaseOrderingWitness ==
    /\ run.pc = "done"
    /\ NothingRaised
    /\ Len(run.phases) = Len(StateOrder) + 3
    /\ run.store = "closed"

\* C17: the rss_before_mb of every phase record but the first is the
\* rss_after_mb of the record before it, and neither is an unsampled value.
RssChained ==
    run.pc # "none" =>
        \A i \in 1..(Len(run.phases) - 1) :
            FloatEq(run.phases[i + 1].rss_before_mb, run.phases[i].rss_after_mb)

\* C19: a search call that raises for one query does not abort the run: no
\* exception is in flight after it.
SearchFailureIsolated ==
    (run.pc # "none" /\ run.failed_qi # 0) => run.exc = "none"

\* C20: once a statement has raised, its exception is the one in flight to
\* the end; no record of that phase or of a later one exists, the final close
\* aside; a phase from the ingest to the second search, open_db aside, raises
\* with the handle open, and a run that fails with the handle open has
\* attempted the final close; the results are not written.
AbortWithFinalClose ==
    (run.pc # "none" /\ run.error # "none") =>
        /\ run.exc = run.error
        /\ run.pc \in {"finally", "failed"}
        /\ ~run.results_written
        /\ \A i \in DOMAIN run.phases :
               \/ run.phases[i].name = "close_db_final"
               \/ Pos(run.phases[i].name) < Pos(run.error)
        /\ (InTry(run.error) /\ run.error # "open_db") => run.db = "handle"
        /\ (run.pc = "failed" /\ run.db = "handle") =>
               run.final_close \in {"closed", "swallowed"}
        /\ run.final_close = "closed" => PhaseNames[Len(PhaseNames)] = "close_db_final"

\* close_db has raised and the final close has raised after it.
AbortWithFinalCloseWitness ==
    /\ run.pc = "failed"
    /\ run.error = "close_db"
    /\ run.final_close = "swallowed"

-----------------------------------------------------------------------------
\* C21: a run that has failed after at least one phase record was recorded
\* has written its results document.
FailedRunWritesResults ==
    (run.pc = "failed" /\ Len(run.phases) >= 1) => run.results_written

-----------------------------------------------------------------------------
-----------------------------------------------------------------------------
\* C23: after a successful run the DB directory is removed when --keep-db
\* was not given, and is there when it was given.
KeepDbSemantics ==
    (run.pc = "done" /\ NothingRaised) =>
        (IF run.keep_db THEN run.db_dir = "present" ELSE run.db_dir = "absent")

-----------------------------------------------------------------------------
\* The lines of the ground-truth file whose query is retained: the first
\* lines up to the limit, of a query id below total_rows.
RetainedLines ==
    {i \in DOMAIN srch.file : i <= QueryLimit /\ srch.file[i].query_id < srch.total_rows}

\* C24: the retained query ids are those of the file's lines that are below
\* total_rows, in the file's order, and each has an entry in the ground
\* truth; the searched queries whose ground truth is empty have added no
\* recall, and recall_count is the number of retained queries with a
\* non-empty ground truth.
MissingGtDropped ==
    srch.pc # "none" =>
        /\ Len(srch.qids) = Cardinality(RetainedLines)
        /\ \A i \in DOMAIN srch.qids :
               /\ srch.qids[i] < srch.total_rows
               /\ srch.qids[i] \in DOMAIN srch.gt_full
               /\ \E l \in RetainedLines :
                      /\ srch.file[l].query_id = srch.qids[i]
                      /\ Cardinality({m \in RetainedLines : m <= l}) = i
        /\ srch.pc = "no_queries" <=> RetainedLines = {}
        /\ Len(srch.recalls) =
               Cardinality({i \in 1..srch.qi : srch.gt_full[srch.qids[i]] # << >>})
        /\ srch.pc = "returned" =>
               srch.stats.recall_count =
                   Cardinality({i \in DOMAIN srch.qids : srch.gt_full[srch.qids[i]] # << >>})

\* A search has returned for a file of which one query is retained with an
\* empty ground truth, searched and not scored, and one is scored.
MissingGtDroppedWitness ==
    /\ srch.pc = "returned"
    /\ "file" \in DOMAIN srch
    /\ Len(srch.qids) > srch.stats.recall_count
    /\ srch.latencies = Len(srch.qids)
    /\ srch.stats.recall_count > 0

-----------------------------------------------------------------------------
\* The number of corpus rows offered to the heaps so far.
OfferedRows ==
    IF gt.si > Len(gt.shards) THEN Len(gt.corpus)
    ELSE gt.shards[gt.si].start + Min(gt.off, gt.shards[gt.si].count)

\* The (score, doc_id) pairs offered so far to the heap of query qi.
Offered(qi) == {<<Scores(qi)[d], d>> : d \in 0..(OfferedRows - 1)}

\* C25: during the scan, after every block and so after every offer of the
\* scans of chunk size 1, the heap of each query holds the offered pairs, all
\* of them while fewer than k were offered and k of them otherwise; no pair
\* left out has a higher score than a pair in the heap, and the first entry
\* of the heap's list is its minimum.
HeapHoldsTopK ==
    gt.pc = "scan" =>
        \A qi \in DOMAIN gt.heaps :
            LET heap == gt.heaps[qi]
            IN /\ Len(heap) = Min(gt.topk, OfferedRows)
               /\ Cardinality(Items(heap)) = Len(heap)
               /\ Items(heap) \subseteq Offered(qi)
               /\ \A out \in Offered(qi) \ Items(heap) : \A in \in Items(heap) :
                      /\ out[1] <= in[1]
                      /\ TupleLess(out, in)
               /\ \A i \in DOMAIN heap : i > 1 => ~TupleLess(heap[i], heap[1])

\* The whole corpus has been offered, one row at a time, to a heap of fewer
\* entries, and a pair offered after the heap was full is in the heap while a
\* pair of a lower score is left out.
HeapHoldsTopKWitness ==
    /\ gt.pc = "scan"
    /\ gt.chunk = 1
    /\ OfferedRows = MaxDocs
    /\ gt.topk < MaxDocs
    /\ \E qi \in DOMAIN gt.heaps :
           /\ \E in \in Items(gt.heaps[qi]) : in[2] >= gt.topk
           /\ \E out \in Offered(qi) \ Items(gt.heaps[qi]) :
                  \E in \in Items(gt.heaps[qi]) : out[1] < in[1]

\* C26: when one candidate is offered to a heap that holds k entries, it
\* takes the place of the heap's minimum if its score is strictly greater
\* than the minimum's score, and the heap is unchanged otherwise, so also when
\* the scores are equal.
ReplacesIffStrictlyGreater ==
    (gt.pc = "scan" /\ gt.last.rows = 1) =>
        \A qi \in DOMAIN gt.heaps :
            Len(gt.prev[qi]) = gt.topk =>
                LET item == <<Scores(qi)[gt.last.first], gt.last.first>>
                    min == gt.prev[qi][1]
                IN IF item[1] > min[1]
                   THEN Items(gt.heaps[qi]) = (Items(gt.prev[qi]) \ {min}) \cup {item}
                   ELSE gt.heaps[qi] = gt.prev[qi]

-----------------------------------------------------------------------------
\* C27: the ground-truth sidecar resolve_dataset returns has the label of the
\* metadata sidecar it picked, and resolve_dataset fails when the directory
\* has no ground-truth sidecar of that label.
GtSidecarOfSameLabel ==
    /\ rs.pc = "returned" => rs.gt_label = rs.label
    /\ (rs.pc \in {"returned", "exit"} /\ sidecars.meta # {}
            /\ LastLabel(sidecars.meta) \notin sidecars.gt) => rs.pc = "exit"

-----------------------------------------------------------------------------
(* main: the two ingest sub-phases, each a call of ingest_vectors_streaming *)

\* first_batch_rows = min(batch_size, count)
FirstBatchRows(batch_size, count) == Min(batch_size, count)

\* remaining_rows = count - ingested_first
RemainingRows(count, ingested_first) == count - ingested_first

RemainingOffsetZero(ingested_first) == 0

\* start_offset=ingested_first
RemainingOffset(ingested_first) == ingested_first

\* The frame of a call of ingest_vectors_streaming at its for loop: ingested = 0.
IngestCall == [pc |-> "next", batch |-> 0, vec |-> 0, count |-> 0]

\* The arguments of the first call of a run with --batch-size b and --count c:
\* that of ingest_initial, or the one call that streams all count rows.
SplitArgs ==
    {[call |-> "ingest", streamer |-> "arcadedb", batch_size |-> b,
      start_offset |-> 0,
      max_rows |-> IF p = "single" THEN c ELSE FirstBatchRows(b, c),
      sample_size |-> 0, phase |-> p, count |-> c,
      ingested_first |-> 0, ingested_rest |-> 0] :
        b \in 1..(MaxCount + 1),
        c \in 0..(TotalRows(sources) + 1),
        p \in {"ingest_initial", "single"}}

\* ingest_initial has returned ingested_first: remaining_rows is computed and,
\* if it is positive, ingest_vectors_streaming is called again from
\* start_offset = ingested_first. The vertices already saved stay in the DB.
IngestRemainingCall ==
    /\ args.phase = "ingest_initial"
    /\ cons.pc = "returned"
    /\ LET ingested_first == cons.count
           remaining_rows == RemainingRows(args.count, ingested_first)
       IN IF remaining_rows > 0
          THEN /\ args' = [args EXCEPT !.phase = "ingest_remaining",
                                       !.ingested_first = ingested_first,
                                       !.start_offset = RemainingOffset(ingested_first),
                                       !.max_rows = remaining_rows]
               /\ gen' = GenCreated
               /\ cons' = IngestCall
          ELSE /\ args' = [args EXCEPT !.phase = "ingested",
                                       !.ingested_first = ingested_first]
               /\ UNCHANGED <<gen, cons>>
    /\ UNCHANGED <<srch, shardIdx, sidecars, gt, run, dim, shardSizes, rs, sources, yielded, mapLog, mat>>

\* ingest_remaining has returned ingested_rest.
IngestRemainingReturn ==
    /\ args.phase = "ingest_remaining"
    /\ cons.pc = "returned"
    /\ args' = [args EXCEPT !.phase = "ingested", !.ingested_rest = cons.count]
    /\ UNCHANGED <<srch, shardIdx, sidecars, gt, run, dim, shardSizes, rs, sources, gen, cons, yielded, mapLog, mat>>

SplitInit ==
    /\ shardIdx = {}
    /\ sidecars = NoSidecars
    /\ gt = NoGt
    /\ run = NoRun
    /\ srch = NoSearch
    /\ dim = 1
    /\ shardSizes = << >>
    /\ rs = NoResolve
    /\ sources \in Catalogs
    /\ args \in SplitArgs
    /\ gen = GenCreated
    /\ cons = IngestCall
    /\ yielded = << >>
    /\ mapLog = << >>
    /\ mat = NoMat

SplitNext ==
    \/ GenStart
    \/ GenFor
    \/ GenWhile
    \/ GenResume
    \/ IngestBatch
    \/ IngestRaise
    \/ IngestReturn
    \/ IngestRemainingCall
    \/ IngestRemainingReturn

\* The ingest of a run: `yielded` logs the batches of both calls, in the
\* order their rows were saved.
SplitSpec == SplitInit /\ [][SplitNext]_vars

\* Both sub-phases have completed.
SplitIngested == args.phase = "ingested"

\* The one call that streams all count rows has completed.
SingleIngested == args.phase = "single" /\ cons.pc = "returned"

\* What the two calls return is what the run of main takes them to return.
IngestedRowsMatchStream ==
    SplitIngested =>
        /\ args.ingested_first
               = IngestedRows(TotalRows(sources), 0,
                              FirstBatchRows(args.batch_size, args.count))
        /\ RemainingRows(args.count, args.ingested_first) > 0 =>
               args.ingested_rest
                   = IngestedRows(TotalRows(sources), args.ingested_first,
                                  RemainingRows(args.count, args.ingested_first))

-----------------------------------------------------------------------------
\* C28: when ingest_initial and ingest_remaining have both completed, the
\* vertices saved are the corpus rows 0..min(count, total_rows)-1, each once,
\* in order and with its global row index as id: the rows the one call with
\* start_offset = 0 and max_rows = count saves, none skipped and none saved
\* twice where the second call takes over.
SplitIngestEqualsSingle ==
    (SplitIngested \/ SingleIngested) =>
        /\ YieldedRows = SubSeq(CorpusRows(sources), 1,
                                Min(args.count, TotalRows(sources)))
        /\ SplitIngested => args.ingested_first + args.ingested_rest = Len(YieldedRows)

\* The second call takes over inside a shard and goes on into the next one.
SplitIngestEqualsSingleWitness ==
    /\ SplitIngested
    /\ args.ingested_first = 2
    /\ args.ingested_rest >= 2
    /\ Len(mapLog) >= 4
    /\ \E i \in DOMAIN yielded :
         /\ yielded[i].gs = args.ingested_first
         /\ yielded[i].lo > 0
         /\ i < Len(yielded)

-----------------------------------------------------------------------------
\* The rows of the phase record of that name, 0 when the phase has no record.
PhaseRows(name) ==
    LET idx == {i \in DOMAIN run.phases : run.phases[i].name = name}
    IN IF idx = {} THEN 0 ELSE run.phases[CHOOSE i \in idx : TRUE].rows

\* C29: the rows of the aggregate ingest record is the number of vertices
\* saved, the rows of the ingest_initial record plus the rows of the
\* ingest_remaining record, whatever --count is, a count above total_rows
\* included.
IngestRecordReportsRowsIngested ==
    "ingest" \in Range(PhaseNames) =>
        PhaseRows("ingest") = PhaseRows("ingest_initial") + PhaseRows("ingest_remaining")

-----------------------------------------------------------------------------
(* stream_shards of the FAISS harness: the batches it yields *)

FaissTakeTotalWhole(shard_rows, remaining) == shard_rows

\* take_total = min(s["count"], remaining)
FaissTakeTotal(shard_rows, remaining) == Min(shard_rows, remaining)

RECURSIVE FaissWhile(_, _, _, _, _)
\* `while start < take_total:` on the map of shard si: end = min(start +
\* batch_size, take_total); yield s["start"] + start, mm[start:end]; start = end
FaissWhile(srcs, si, batch_size, start, take_total) ==
    IF start < take_total
    THEN LET end == Min(start + batch_size, take_total)
             view == View(si, start, end, srcs[si].count)
         IN <<[gs |-> srcs[si].start + start,
               shard |-> view.shard, lo |-> view.lo, hi |-> view.hi]>>
            \o FaissWhile(srcs, si, batch_size, end, take_total)
    ELSE << >>

RECURSIVE FaissFor(_, _, _, _)
\* `for s in sources:` from shard si on: break when remaining <= 0, continue
\* when take_total <= 0, remaining -= take_total after the while loop.
FaissFor(srcs, si, batch_size, remaining) ==
    IF si > Len(srcs) \/ remaining <= 0
    THEN << >>
    ELSE LET take_total == FaissTakeTotal(srcs[si].count, remaining)
         IN IF take_total <= 0
            THEN FaissFor(srcs, si + 1, batch_size, remaining)
            ELSE FaissWhile(srcs, si, batch_size, 0, take_total)
                 \o FaissFor(srcs, si + 1, batch_size, remaining - take_total)

\* remaining = max_rows if max_rows is not None else sum of the counts
FaissStreamShards(srcs, batch_size, max_rows) ==
    FaissFor(srcs, 1, batch_size,
             IF max_rows # NoneRows THEN max_rows ELSE TotalRows(srcs))

\* The generator sample_training_data consumes yields these batches.
FaissStreamMatchesGenerator ==
    args.call = "sample" =>
        /\ IsPrefix(yielded, FaissStreamShards(sources, args.batch_size, args.max_rows))
        /\ Exhausted => yielded = FaissStreamShards(sources, args.batch_size, args.max_rows)

\* C30: for every catalog, empty shards included, every batch_size >= 1 and
\* every max_rows, None or >= 0, the stream of the ArcadeDB harness called
\* with start_offset = 0 yields the batches the stream of the FAISS harness
\* yields, the same global starts and row ranges in the same order.
StreamersAgree ==
    (Streaming /\ args.start_offset = 0) =>
        /\ IsPrefix(yielded, FaissStreamShards(sources, args.batch_size, args.max_rows))
        /\ Exhausted => yielded = FaissStreamShards(sources, args.batch_size, args.max_rows)

\* A bounded stream that has gone past an empty shard.
StreamersAgreeWitness ==
    /\ Streaming /\ args.start_offset = 0 /\ Exhausted
    /\ args.max_rows # NoneRows
    /\ args.max_rows < TotalRows(sources)
    /\ Len(yielded) >= 2
    /\ BatchRows(LastBatch) < args.batch_size
    /\ \E i \in DOMAIN sources :
         /\ sources[i].count = 0
         /\ \E j \in DOMAIN yielded : yielded[j].shard > i

====
